---- MODULE Spec2Model ----
(***************************************************************************)
(* Model of pygatt/classes.py: the BluetoothLEDevice facade over the       *)
(* BLED112 and GATTTOOL backends.  The facade's caller runs one operation  *)
(* at a time; the BLED112 receiver thread appends notifications to the     *)
(* backend's inbox at any moment.  Time is counted in units of 125 ms, so  *)
(* that the 250 ms polling quantum is 2 units and timeouts that are not a  *)
(* multiple of the quantum are representable.                              *)
(***************************************************************************)
EXTENDS Integers, Sequences, FiniteSets, TLC

\* ---------------------------------------------------------------- bounds
MaxDeliveries == 3      \* notifications the listener delivers in a run
MaxTimeout == 3         \* largest bled112_timeout, in 125 ms units
MaxPackets == 2         \* largest num_packets
MaxObservers == 2       \* registrations accepted by subscribe in a run

\* ------------------------------------------------------ program constants
Quantum == 2            \* time.sleep(0.25), in 125 ms units
RssiSentinel == 25      \* the known-bad RSSI value
RssiAttempts == 3       \* range(0, 3)

\* ------------------------------------------------------------ value sets
BACKEND == {"BLED112", "GATTTOOL"}

NoneUuid == <<"None">>
NoneHandle == 0
NoneCallback == 0

\* UUID strings, abbreviated to one byte: two spellings of 0x0a, one
\* hyphenated spelling of 0x0b, and 0x0c, which no characteristic has.
UuidStrings == { <<"0", "a">>, <<"0", "A">>, <<"0", "-", "b">>, <<"0", "c">> }
UuidArgs == UuidStrings \cup {NoneUuid}
\* subscribe is tried with the spellings of the UUIDs of characteristics the
\* device has, or None
SubscribeUuids == { <<"0", "a">>, <<"0", "A">>, <<"0", "-", "b">>, NoneUuid }

Handles == {1, 2}
\* The k-th notification of a run carries the bytes 2k-1, 2k, so that the
\* entries of the queues can be told apart.
PacketNo(k) == <<2 * k - 1, 2 * k>>
Packets == { PacketNo(k) : k \in 1..MaxDeliveries }
\* Callback functions are numbered; the k-th registration of a run
\* registers function k, so that the observers can be told apart.
CallbackFns == 1..MaxObservers
RssiValues == {RssiSentinel, 0 - 60}
ReadValues == { <<>>, <<9>> }

\* Arguments of char_write that are tried: a resolvable write UUID or None,
\* any response UUID or None; with wait_for_response every packet count and
\* timeout, without it a packet count of 0 or 1 (the default).
WriteUuids == { <<"0", "a">>, NoneUuid }
CharWriteArgs ==
    { a \in [uuid_write : WriteUuids, uuid_recv : UuidArgs,
             wait_for_response : BOOLEAN, num_packets : 0..MaxPackets,
             bled112_timeout : 0..MaxTimeout, handle_recv : {NoneHandle}] :
        ~a.wait_for_response => (a.num_packets <= 1 /\ a.bled112_timeout = MaxTimeout) }

\* ------------------------------------------------------------- helpers
RECURSIVE Flatten(_)
Flatten(ss) == IF ss = <<>> THEN <<>> ELSE Head(ss) \o Flatten(Tail(ss))

Take(s, n) == SubSeq(s, 1, IF n < Len(s) THEN n ELSE Len(s))
Drop(s, n) == SubSeq(s, n + 1, Len(s))

RECURSIVE SumLens(_, _)
SumLens(f, D) ==
    IF D = {} THEN 0
    ELSE LET d == CHOOSE x \in D : TRUE IN Len(f[d]) + SumLens(f, D \ {d})

\* str.replace("-", "")
StripHyphens(s) == SelectSeq(s, LAMBDA c : c # "-")

\* value of one hexadecimal digit, either case (binascii.unhexlify)
HexVal(c) ==
    CASE c = "0" -> 0
      [] c = "a" -> 10 [] c = "A" -> 10
      [] c = "b" -> 11 [] c = "B" -> 11
      [] c = "c" -> 12 [] c = "C" -> 12
      [] OTHER -> 0

unhexlify(s) == [k \in 1..(Len(s) \div 2) |-> 16 * HexVal(s[2 * k - 1]) + HexVal(s[2 * k])]

\* BluetoothLEDevice._uuid_bytearray; None has no replace() (AttributeError)
uuid_bytearray(uuid) == unhexlify(StripHyphens(uuid))

\* backend.get_handle: the characteristic table of the connected device
backend_get_handle(bytes) ==
    IF bytes = <<10>> THEN 1 ELSE IF bytes = <<11>> THEN 2 ELSE NoneHandle

\* BluetoothLEDevice._get_handle
get_handle(uuid) == backend_get_handle(uuid_bytearray(uuid))

\* backend.remove_notification(handle, index), index counted from 0
remove_notification(box, handle, index) ==
    [box EXCEPT ![handle] = SubSeq(@, 1, index) \o SubSeq(@, index + 2, Len(@))]

EmptyInbox == [h \in Handles |-> <<>>]
NoArgs == [uuid_write |-> NoneUuid, uuid_recv |-> NoneUuid,
           wait_for_response |-> FALSE, num_packets |-> 0,
           bled112_timeout |-> 0, handle_recv |-> NoneHandle]
NoReadings == <<>>
\* the local ret of char_write and of char_read: not assigned, or the
\* backend's answer (failure or None: ok is FALSE; bytes read otherwise)
NoRet == [set |-> FALSE, ok |-> FALSE, bytes |-> <<>>]
RetOf(ok, bytes) == [set |-> TRUE, ok |-> ok, bytes |-> bytes]
\* the arguments of char_read and subscribe, and char_read's local handle
NoParams == [uuid |-> NoneUuid, callback |-> NoneCallback, handle |-> NoneHandle]
NoOutcome == [kind |-> "none", exc |-> "", retType |-> "", val |-> <<>>]
Returns(t, v) == [kind |-> "return", exc |-> "", retType |-> t, val |-> v]
Raises(e) == [kind |-> "raise", exc |-> e, retType |-> "", val |-> <<>>]

\* ---------------------------------------------------------------- state
VARIABLES
    backend_type,   \* self._backend_type
    callbacks,      \* self._callbacks: uuid string -> list of callbacks
    inbox,          \* the backend's notifications: handle -> list of values
    delivered,      \* notifications delivered so far by the listener
    pc,             \* position of the caller: idle, poll, drain, dispatch, done
    op,             \* operation in progress or just finished
    args,           \* arguments of the char_write in progress
    notifications,  \* char_write's local: last result of get_notifications()
    sec_waited,     \* char_write's local
    value_list,     \* char_write's local
    i,              \* char_write's drain loop index
    cbIndex,        \* position of the dispatch loop in the callback list
    invoked,        \* callbacks invoked by the operation, with their argument
    calls,          \* calls the operation made on the backend, in order
    outcome,        \* how the operation ended
    readings,       \* the RSSI values the backend has for get_rssi's queries
    ret,            \* the local ret of char_write and char_read
    params,         \* arguments of the char_read or subscribe in progress
    arrived,        \* history: per handle, entries queued at the call or since
    removed         \* history: per handle, entries removed by the operation

vars == <<backend_type, callbacks, inbox, delivered, pc, op, args,
          notifications, sec_waited, value_list, i, cbIndex, invoked, calls,
          outcome, readings, ret, params, arrived, removed>>

work == <<notifications, sec_waited, value_list, i, cbIndex>>
locals == <<args, work>>
history == <<arrived, removed>>

Init ==
    /\ backend_type \in BACKEND
    /\ callbacks = <<>>
    /\ inbox = EmptyInbox
    /\ delivered = 0
    /\ pc = "idle"
    /\ op = "none"
    /\ args = NoArgs
    /\ notifications = EmptyInbox
    /\ sec_waited = 0
    /\ value_list = <<>>
    /\ i = 0
    /\ cbIndex = 0
    /\ invoked = <<>>
    /\ calls = <<>>
    /\ outcome = NoOutcome
    /\ readings = NoReadings
    /\ ret = NoRet
    /\ params = NoParams
    /\ arrived = EmptyInbox
    /\ removed = EmptyInbox

\* An operation that runs to its end in one step.
Finished(name, log, result) ==
    /\ pc' = "done"
    /\ op' = name
    /\ calls' = log
    /\ outcome' = result
    /\ invoked' = <<>>
    /\ UNCHANGED <<work, history>>

\* --------------------------------------------------------------- listener
\* A char_write that has fetched the inbox is under way or has just ended.
InWaitCall ==
    \/ pc \in {"poll", "drain", "dispatch"}
    \/ pc = "done" /\ op = "char_write" /\ Len(calls) >= 4

\* The BLED112 receiver thread queues a notification value for a handle.
Deliver ==
    /\ backend_type = "BLED112"
    /\ delivered < MaxDeliveries
    /\ \E h \in Handles, p \in {PacketNo(delivered + 1)} :
        /\ inbox' = [inbox EXCEPT ![h] = Append(@, p)]
        /\ arrived' = IF InWaitCall
                      THEN [arrived EXCEPT ![h] = Append(@, p)]
                      ELSE arrived
    /\ delivered' = delivered + 1
    /\ UNCHANGED <<backend_type, callbacks, pc, op, locals, invoked, calls,
                   outcome, readings, ret, params, removed>>

\* ----------------------------------------------------------------- encrypt
\* What encrypt does for a backend type: its backend calls and its result.
encrypt_delegating(bt) ==
    [log |-> <<"encrypt">>, result |-> Returns("None", <<>>)]

encrypt_branch(bt) ==
    IF bt = "BLED112"
    THEN [log |-> <<"encrypt">>, result |-> Returns("None", <<>>)]
    ELSE [log |-> <<>>, result |-> Raises("NotImplementedError")]

encrypt ==
    /\ pc = "idle"
    /\ LET r == encrypt_branch(backend_type) IN Finished("encrypt", r.log, r.result)
    /\ UNCHANGED <<backend_type, callbacks, inbox, delivered, args, readings,
                   ret, params>>

\* ---------------------------------------------------------------- get_rssi
\* The for loop of get_rssi over the readings the backend will give:
\* the number of backend queries and the result.
rssi_loop_no_retry(rs, k) ==
    IF k > RssiAttempts
    THEN [queries |-> RssiAttempts, result |-> Returns("Exception", <<>>)]
    ELSE [queries |-> k, result |-> Returns("int", <<rs[k]>>)]

RECURSIVE rssi_loop(_, _)
rssi_loop(rs, k) ==
    IF k > RssiAttempts
    THEN [queries |-> RssiAttempts, result |-> Returns("Exception", <<>>)]
    ELSE IF rs[k] # RssiSentinel
         THEN [queries |-> k, result |-> Returns("int", <<rs[k]>>)]
         ELSE rssi_loop(rs, k + 1)

get_rssi ==
    /\ pc = "idle"
    /\ IF backend_type = "BLED112"
       THEN \E rs \in [1..RssiAttempts -> RssiValues] :
              LET r == rssi_loop(rs, 1) IN
              /\ Finished("get_rssi", [k \in 1..r.queries |-> "get_rssi"], r.result)
              /\ readings' = rs
       ELSE /\ Finished("get_rssi", <<>>, Raises("NotImplementedError"))
            /\ UNCHANGED readings
    /\ UNCHANGED <<backend_type, callbacks, inbox, delivered, args, ret, params>>

\* --------------------------------------------------------------- subscribe
\* Lines 248-250: the registry after callback is registered under uuid
register_replacing(cbs, uuid, callback) ==
    [u \in DOMAIN cbs \cup {uuid} |-> IF u = uuid THEN <<callback>> ELSE cbs[u]]

register(cbs, uuid, callback) ==
    IF uuid \in DOMAIN cbs
    THEN [cbs EXCEPT ![uuid] = Append(@, callback)]
    ELSE [u \in DOMAIN cbs \cup {uuid} |-> IF u = uuid THEN <<callback>> ELSE cbs[u]]

subscribe ==
    /\ pc = "idle"
    /\ \E uuid \in SubscribeUuids,
          callback \in {NoneCallback, SumLens(callbacks, DOMAIN callbacks) + 1} :
        /\ params' = [uuid |-> uuid, callback |-> callback, handle |-> NoneHandle]
        /\ IF callback = NoneCallback
           THEN \* callback.__name__ in the logging call
                /\ Finished("subscribe", <<>>, Raises("AttributeError"))
                /\ UNCHANGED callbacks
           ELSE IF backend_type = "BLED112"
           THEN IF uuid = NoneUuid
                THEN /\ Finished("subscribe", <<>>, Raises("AttributeError"))
                     /\ UNCHANGED callbacks
                ELSE /\ callback \in CallbackFns
                     /\ Finished("subscribe", <<"subscribe">>, Returns("None", <<>>))
                     /\ callbacks' = register(callbacks, uuid, callback)
           ELSE /\ Finished("subscribe", <<"subscribe">>, Returns("None", <<>>))
                /\ UNCHANGED callbacks
    /\ UNCHANGED <<backend_type, inbox, delivered, args, readings, ret>>

\* -------------------------------------------------------------- char_write
\* backend.get_notifications(): a snapshot of the inbox
get_notifications == inbox

\* Lines 158-161 reached with the assembled value: dispatch if uuid_recv is
\* a key of the registry, else the call returns.
StartDispatch_unchecked(log) ==
    IF args.uuid_recv \in DOMAIN callbacks
    THEN /\ pc' = "dispatch"
         /\ outcome' = outcome
         /\ calls' = log
    ELSE /\ pc' = "done"
         /\ outcome' = Raises("KeyError")
         /\ calls' = log

StartDispatch(log) ==
    IF args.uuid_recv \in DOMAIN callbacks
    THEN /\ pc' = "dispatch"
         /\ outcome' = outcome
         /\ calls' = log
    ELSE /\ pc' = "done"
         /\ outcome' = Returns("None", <<>>)
         /\ calls' = log

\* Line 137: the test of the backend's answer to the write
write_failed_unchecked(r) == FALSE

write_failed(r) == ~r

\* Line 132: the argument check
invalid_num_packets_negative(wait_for_response, num_packets) ==
    wait_for_response /\ num_packets < 0

invalid_num_packets(wait_for_response, num_packets) ==
    wait_for_response /\ num_packets <= 0

\* Lines 144-145: what one test of the while loop decides for the response
\* queue q of the last fetch.
poll_decision_late(q, num_packets, waited, timeout) ==
    IF Len(q) < num_packets
    THEN IF waited > timeout THEN "raise" ELSE "sleep"
    ELSE "assemble"

poll_decision_timeout_first(q, num_packets, waited, timeout) ==
    IF waited >= timeout THEN "raise"
    ELSE IF Len(q) < num_packets THEN "sleep" ELSE "assemble"

poll_decision_partial(q, num_packets, waited, timeout) ==
    IF Len(q) < num_packets /\ waited < timeout THEN "sleep" ELSE "assemble"

poll_decision(q, num_packets, waited, timeout) ==
    IF Len(q) < num_packets
    THEN IF waited >= timeout THEN "raise" ELSE "sleep"
    ELSE "assemble"

\* Lines 155-157: iteration k of the assembling loop, for the response queue
\* q of the last fetch and the backend's inbox: the value read and the inbox
\* after remove_notification.
assemble_step_by_index(q, box, handle, k) ==
    [val |-> q[1], box |-> remove_notification(box, handle, k)]

assemble_step(q, box, handle, k) ==
    [val |-> q[1], box |-> remove_notification(box, handle, 0)]

\* The entries of queue old that are missing from new, new being old with
\* at most one entry deleted.
Deleted(old, new) ==
    IF Len(new) = Len(old) THEN <<>>
    ELSE LET k == CHOOSE j \in 1..Len(old) :
                    new = SubSeq(old, 1, j - 1) \o SubSeq(old, j + 1, Len(old))
         IN <<old[k]>>

\* Lines 129-143: argument check, handle resolution, the characteristic
\* write and the first fetch of the inbox.
char_write_call ==
    /\ pc = "idle"
    /\ \E a \in CharWriteArgs, r \in BOOLEAN :
        IF backend_type = "BLED112"
        THEN IF invalid_num_packets(a.wait_for_response, a.num_packets)
             THEN /\ Finished("char_write", <<>>, Raises("ValueError"))
                  /\ args' = a
                  /\ ret' = NoRet
             ELSE IF a.uuid_write = NoneUuid
             THEN /\ Finished("char_write", <<>>, Raises("AttributeError"))
                  /\ args' = a
                  /\ ret' = NoRet
             ELSE IF a.uuid_recv = NoneUuid
             THEN /\ Finished("char_write", <<"get_handle">>, Raises("AttributeError"))
                  /\ args' = a
                  /\ ret' = NoRet
             ELSE IF write_failed(r)
             THEN /\ Finished("char_write", <<"get_handle", "get_handle", "char_write">>,
                              Raises("Exception"))
                  /\ args' = [a EXCEPT !.handle_recv = get_handle(a.uuid_recv)]
                  /\ ret' = RetOf(r, <<>>)
             ELSE IF ~a.wait_for_response
             THEN /\ Finished("char_write", <<"get_handle", "get_handle", "char_write">>,
                              Returns("None", <<>>))
                  /\ args' = [a EXCEPT !.handle_recv = get_handle(a.uuid_recv)]
                  /\ ret' = RetOf(r, <<>>)
             ELSE /\ pc' = "poll"
                  /\ ret' = RetOf(r, <<>>)
                  /\ op' = "char_write"
                  /\ args' = [a EXCEPT !.handle_recv = get_handle(a.uuid_recv)]
                  /\ notifications' = get_notifications
                  /\ sec_waited' = 0
                  /\ calls' = <<"get_handle", "get_handle", "char_write",
                                "get_notifications">>
                  /\ arrived' = inbox
                  /\ removed' = EmptyInbox
                  /\ invoked' = <<>>
                  /\ outcome' = NoOutcome
                  /\ UNCHANGED <<value_list, i, cbIndex>>
        ELSE /\ r
             /\ Finished("char_write", <<"get_handle", "char_write">>,
                         Returns("None", <<>>))
             /\ args' = a
             /\ ret' = NoRet
    /\ UNCHANGED <<backend_type, callbacks, inbox, delivered, readings, params>>

\* Lines 144-150: one test of the while condition and what follows it.
char_write_poll ==
    /\ pc = "poll"
    /\ IF args.handle_recv \notin DOMAIN notifications
       THEN \* notifications[handle_recv] with an unresolved handle
            /\ pc' = "done"
            /\ outcome' = Raises("KeyError")
            /\ UNCHANGED <<notifications, sec_waited, value_list, i, calls>>
       ELSE LET d == poll_decision(notifications[args.handle_recv], args.num_packets,
                                   sec_waited, args.bled112_timeout) IN
            IF d = "raise"
            THEN /\ pc' = "done"
                 /\ outcome' = Raises("NoResponseError")
                 /\ UNCHANGED <<notifications, sec_waited, value_list, i, calls>>
            ELSE IF d = "sleep"
            THEN /\ notifications' = get_notifications
                 /\ sec_waited' = sec_waited + Quantum
                 /\ calls' = Append(calls, "get_notifications")
                 /\ UNCHANGED <<pc, outcome, value_list, i>>
            ELSE /\ value_list' = <<>>
                 /\ i' = 0
                 /\ UNCHANGED <<notifications, sec_waited>>
                 /\ IF args.num_packets > 0
                    THEN /\ pc' = "drain"
                         /\ UNCHANGED <<outcome, calls>>
                    ELSE StartDispatch(calls)
    /\ UNCHANGED <<backend_type, callbacks, inbox, delivered, op, args, cbIndex,
                   invoked, readings, ret, params, arrived, removed>>

\* Lines 154-157: one iteration of the assembling loop; after the last one,
\* the test of line 159.
char_write_drain ==
    /\ pc = "drain"
    /\ i < args.num_packets
    /\ IF notifications[args.handle_recv] = <<>>
       THEN \* notifications[handle_recv][0] of an empty list
            /\ pc' = "done"
            /\ outcome' = Raises("IndexError")
            /\ UNCHANGED <<value_list, inbox, removed, i, calls>>
       ELSE LET step == assemble_step(notifications[args.handle_recv], inbox,
                                      args.handle_recv, i)
                log == Append(calls, "remove_notification") IN
            /\ value_list' = value_list \o step.val
            /\ inbox' = step.box
            /\ removed' = [h \in Handles |->
                              removed[h] \o Deleted(inbox[h], step.box[h])]
            /\ i' = i + 1
            /\ IF i + 1 < args.num_packets
               THEN /\ calls' = log
                    /\ UNCHANGED <<pc, outcome>>
               ELSE StartDispatch(log)
    /\ UNCHANGED <<backend_type, callbacks, delivered, op, args, notifications,
                   sec_waited, cbIndex, invoked, readings, ret, params, arrived>>

\* Lines 160-161: one callback is called with the assembled value; an
\* exception it raises leaves char_write.
char_write_dispatch ==
    /\ pc = "dispatch"
    /\ LET cbs == callbacks[args.uuid_recv]
           cb == cbs[cbIndex + 1] IN
        /\ invoked' = Append(invoked, [cb |-> cb, value |-> value_list])
        /\ \E cb_raises \in BOOLEAN :
            IF cb_raises
            THEN /\ pc' = "done"
                 /\ outcome' = Raises("CallbackError")
                 /\ UNCHANGED cbIndex
            ELSE /\ cbIndex' = cbIndex + 1
                 /\ IF cbIndex + 1 < Len(cbs)
                    THEN UNCHANGED <<pc, outcome>>
                    ELSE /\ pc' = "done"
                         /\ outcome' = Returns("None", <<>>)
    /\ UNCHANGED <<backend_type, callbacks, inbox, delivered, op, args,
                   notifications, sec_waited, value_list, i, calls, readings,
                   ret, params, arrived, removed>>

\* --------------------------------------------------------------- char_read
\* Line 106: the test of the backend's answer to the read
read_failed_falsy(r) == ~r.ok \/ r.bytes = <<>>

read_failed(r) == ~r.ok

char_read ==
    /\ pc = "idle"
    /\ \E uuid \in UuidArgs,
          r \in {RetOf(FALSE, <<>>)} \cup {RetOf(TRUE, b) : b \in ReadValues} :
        IF backend_type = "BLED112"
        THEN IF uuid = NoneUuid
             THEN /\ ~r.ok
                  /\ Finished("char_read", <<>>, Raises("AttributeError"))
                  /\ params' = [NoParams EXCEPT !.uuid = uuid]
                  /\ ret' = NoRet
             ELSE IF get_handle(uuid) = NoneHandle
             THEN /\ ~r.ok
                  /\ Finished("char_read", <<"get_handle">>, Raises("ValueError"))
                  /\ params' = [NoParams EXCEPT !.uuid = uuid]
                  /\ ret' = NoRet
             ELSE /\ params' = [NoParams EXCEPT !.uuid = uuid,
                                               !.handle = get_handle(uuid)]
                  /\ ret' = r
                  /\ IF read_failed(r)
                     THEN Finished("char_read", <<"get_handle", "char_read">>,
                                   Raises("Exception"))
                     ELSE Finished("char_read", <<"get_handle", "char_read">>,
                                   Returns("bytearray", r.bytes))
        ELSE /\ Finished("char_read", <<"char_read_uuid">>,
                         IF r.ok THEN Returns("bytearray", r.bytes)
                                 ELSE Returns("None", <<>>))
             /\ params' = [NoParams EXCEPT !.uuid = uuid]
             /\ ret' = NoRet
    /\ UNCHANGED <<backend_type, callbacks, inbox, delivered, args, readings>>

\* -------------------------------------------------------------------- stop
stop ==
    /\ pc = "idle"
    /\ IF backend_type = "BLED112"
       THEN Finished("stop", <<"disconnect", "stop">>, Returns("None", <<>>))
       ELSE Finished("stop", <<"stop">>, Returns("None", <<>>))
    /\ UNCHANGED <<backend_type, callbacks, inbox, delivered, args, readings,
                   ret, params>>

\* The caller takes the result and is ready for the next operation.
Finish ==
    /\ pc = "done"
    /\ pc' = "idle"
    /\ op' = "none"
    /\ args' = NoArgs
    /\ notifications' = EmptyInbox
    /\ sec_waited' = 0
    /\ value_list' = <<>>
    /\ i' = 0
    /\ cbIndex' = 0
    /\ invoked' = <<>>
    /\ calls' = <<>>
    /\ outcome' = NoOutcome
    /\ readings' = NoReadings
    /\ ret' = NoRet
    /\ params' = NoParams
    /\ arrived' = EmptyInbox
    /\ removed' = EmptyInbox
    /\ UNCHANGED <<backend_type, callbacks, inbox, delivered>>

\* ------------------------------------------------------------ properties
hr == args.handle_recv
N == args.num_packets

\* a char_write on the BLED112 backend with wait_for_response
WaitCall == op = "char_write" /\ backend_type = "BLED112" /\ args.wait_for_response

\* ... that has fetched the inbox at least once
Polled == WaitCall /\ Len(calls) >= 4 /\ calls[4] = "get_notifications"

\* ... whose assembling loop has run to its end
Reassembled == WaitCall /\ pc \in {"dispatch", "done"} /\ N > 0 /\ i = N

\* ... that ended after a fetch that showed fewer than num_packets entries
LastPollShort ==
    Polled /\ pc = "done" /\ hr \in Handles /\ Len(notifications[hr]) < N

\* the callbacks registered under the text of the response UUID
Observers == IF args.uuid_recv \in DOMAIN callbacks THEN callbacks[args.uuid_recv] ELSE <<>>

CountOf(log, name) == Cardinality({k \in DOMAIN log : log[k] = name})

\* C1: after a successful write-wait the value assembled, and handed to each
\* observer, is the concatenation in arrival order of the first num_packets
\* entries of the response handle's queue.
C1_ValueIsConcatenation ==
    Reassembled =>
        /\ value_list = Flatten(Take(arrived[hr], N))
        /\ \A k \in DOMAIN invoked : invoked[k].value = Flatten(Take(arrived[hr], N))

\* C2: a successful write-wait removes exactly num_packets entries of the
\* response handle's queue, all from its head; the entries behind them stay
\* in order and the queues of other handles are left alone.
C2_RemovesHead ==
    Reassembled =>
        /\ CountOf(calls, "remove_notification") = N
        /\ removed[hr] = Take(arrived[hr], N)
        /\ Len(removed[hr]) = N
        /\ inbox[hr] = Drop(arrived[hr], N)
        /\ \A h \in Handles \ {hr} : removed[h] = <<>> /\ inbox[h] = arrived[h]

C2_Witness ==
    /\ Reassembled /\ pc = "done" /\ outcome.kind = "return"
    /\ N = 2 /\ Len(inbox[hr]) = 1

\* C3: a write-wait whose response queue is still short of num_packets when
\* the accumulated wait has reached the timeout raises NoResponseError and
\* calls no observer; it does not sleep again once the timeout is reached.
C3_TimeoutRaises ==
    /\ LastPollShort =>
          /\ outcome = Raises("NoResponseError")
          /\ invoked = <<>>
          /\ sec_waited >= args.bled112_timeout
    /\ (WaitCall /\ pc = "poll" /\ sec_waited > 0) =>
          sec_waited - Quantum < args.bled112_timeout

C3_Witness ==
    /\ LastPollShort /\ outcome = Raises("NoResponseError")
    /\ Len(Observers) = 2 /\ sec_waited > 0

\* C4: a write-wait that times out has removed nothing: every entry that was
\* queued at the call or delivered since is still in its queue, in order.
C4_TimeoutKeepsInbox ==
    (LastPollShort \/ (op = "char_write" /\ outcome.exc = "NoResponseError")) =>
        /\ inbox = arrived
        /\ removed = EmptyInbox
        /\ CountOf(calls, "remove_notification") = 0

C4_Witness ==
    /\ WaitCall /\ outcome = Raises("NoResponseError")
    /\ N = 2 /\ Len(inbox[hr]) = 1 /\ Len(notifications[hr]) = 1

\* C5: on the BLED112 backend a write with wait_for_response and
\* num_packets <= 0 ends at once with ValueError (the InvalidArgument error)
\* and has made no call on the backend.
C5_InvalidArgumentFirst ==
    (WaitCall /\ N <= 0) =>
        /\ pc = "done"
        /\ outcome = Raises("ValueError")
        /\ calls = <<>>
        /\ removed = EmptyInbox
        /\ invoked = <<>>

C5_Witness ==
    /\ WaitCall /\ N = 0 /\ pc = "done" /\ outcome = Raises("ValueError")
    /\ args.uuid_write # NoneUuid /\ args.uuid_recv # NoneUuid
    /\ inbox[1] # <<>>

\* C6: when a write-wait whose value was assembled has ended, every observer
\* of the response identifier has been called exactly once with the value,
\* in registration order, and no other observer has been called.
C6_AllObserversInOrder ==
    (Reassembled /\ pc = "done") =>
        invoked = [k \in 1..Len(Observers) |->
                      [cb |-> Observers[k], value |-> value_list]]

\* C7: an exception raised by an observer is isolated: the observers after
\* it are still called and the write call returns normally.
C7_ObserverFailureIsolated ==
    (Reassembled /\ pc = "done") =>
        /\ outcome.kind = "return"
        /\ Len(invoked) = Len(Observers)

\* C8: when the backend gives the sentinel on all 3 attempts, get_rssi ends
\* by raising an error, never by returning a value.
C8_SentinelRaises ==
    (op = "get_rssi" /\ pc = "done" /\ backend_type = "BLED112"
        /\ \A k \in DOMAIN readings : readings[k] = RssiSentinel) =>
        /\ outcome.kind = "raise"
        /\ outcome.val # <<RssiSentinel>>

\* C9: get_rssi queries the backend at most 3 times; if the k-th reading is
\* the first that is not the sentinel, it queries exactly k times and
\* returns that reading.
C9_FirstRealReading ==
    (op = "get_rssi" /\ pc = "done" /\ backend_type = "BLED112") =>
        /\ calls \in Seq({"get_rssi"})
        /\ Len(calls) <= RssiAttempts
        /\ \A k \in DOMAIN readings :
              (readings[k] # RssiSentinel /\ \A j \in 1..(k - 1) : readings[j] = RssiSentinel)
                  => (Len(calls) = k /\ outcome = Returns("int", <<readings[k]>>))

C9_Witness ==
    /\ op = "get_rssi" /\ pc = "done"
    /\ readings = <<RssiSentinel, RssiSentinel, 0 - 60>>
    /\ outcome = Returns("int", <<0 - 60>>)
    /\ Len(calls) = 3

\* C10: encrypt and get_rssi on the GATTTOOL backend raise
\* NotImplementedError (the UnsupportedBackendOperation error) and make no
\* call on the backend.
C10_UnsupportedNoCall ==
    (pc = "done" /\ backend_type = "GATTTOOL" /\ op \in {"encrypt", "get_rssi"}) =>
        /\ outcome = Raises("NotImplementedError")
        /\ calls = <<>>

C10_Witness ==
    /\ pc = "done" /\ backend_type = "GATTTOOL" /\ op = "encrypt"
    /\ outcome = Raises("NotImplementedError")

\* a char_write on the BLED112 backend without wait_for_response that was
\* given a write UUID
NoWaitCall ==
    /\ op = "char_write" /\ backend_type = "BLED112" /\ pc = "done"
    /\ ~args.wait_for_response /\ args.uuid_write # NoneUuid

\* C11: a write without wait_for_response resolves only the write UUID and
\* makes exactly one backend characteristic write; it fetches no inbox,
\* removes nothing, calls no observer, and needs no response UUID: it ends
\* by returning, or with the write-failed error if the backend write fails.
C11_NoWaitTouchesOnlyWrite ==
    NoWaitCall =>
        /\ calls = <<"get_handle", "char_write">>
        /\ outcome \in {Returns("None", <<>>), Raises("Exception")}
        /\ removed = EmptyInbox
        /\ invoked = <<>>

C13_ReadOutcomes ==
    (op = "char_read" /\ pc = "done" /\ backend_type = "BLED112"
        /\ params.uuid # NoneUuid) =>
        IF params.handle = NoneHandle
        THEN /\ outcome = Raises("ValueError")
             /\ calls = <<"get_handle">>
        ELSE IF ~ret.ok
        THEN /\ outcome = Raises("Exception")
             /\ calls = <<"get_handle", "char_read">>
        ELSE /\ outcome = Returns("bytearray", ret.bytes)
             /\ calls = <<"get_handle", "char_read">>

C13_Witness ==
    /\ op = "char_read" /\ pc = "done" /\ backend_type = "BLED112"
    /\ params.handle = 2 /\ ret = RetOf(TRUE, <<9>>)
    /\ outcome = Returns("bytearray", <<9>>)

\* C14: subscribe without a callback still enables the subscription at the
\* backend and returns, leaving the registry as it was; with a callback the
\* callback becomes the last entry of the UUID's list, which is created if
\* absent.
C14_SubscribeOutcome ==
    (op = "subscribe" /\ pc = "done" /\ params.uuid # NoneUuid) =>
        /\ outcome = Returns("None", <<>>)
        /\ calls = <<"subscribe">>
        /\ (backend_type = "BLED112" /\ params.callback # NoneCallback) =>
              /\ params.uuid \in DOMAIN callbacks
              /\ callbacks[params.uuid][Len(callbacks[params.uuid])] = params.callback

\* C15: the registry only grows: in every step, each UUID that has observers
\* keeps them, in the same order, at the front of its list.
C15_RegistryOnlyGrows ==
    [][\A u \in DOMAIN callbacks :
          /\ u \in DOMAIN callbacks'
          /\ Len(callbacks'[u]) >= Len(callbacks[u])
          /\ SubSeq(callbacks'[u], 1, Len(callbacks[u])) = callbacks[u]]_vars

C15_Witness ==
    /\ op = "char_write" /\ pc = "done" /\ outcome = Raises("CallbackError")
    /\ Len(Observers) = 2 /\ Len(invoked) = 1

\* C16: whenever the listener delivers during a write-wait, nothing is
\* lost, duplicated or reordered: the bytes assembled so far followed by the
\* entries still queued for the response handle are the entries that
\* arrived for it, in arrival order, and other queues hold all that arrived.
C16_NothingLostOrDuplicated ==
    (InWaitCall /\ hr \in Handles) =>
        /\ value_list \o Flatten(inbox[hr]) = Flatten(arrived[hr])
        /\ \A h \in Handles \ {hr} : inbox[h] = arrived[h]

\* sleeps of the polling loop so far: every fetch but the first follows one
Sleeps == CountOf(calls, "get_notifications") - 1
MaxSleeps == (args.bled112_timeout + Quantum - 1) \div Quantum

\* C17: the polling loop sleeps at most ceil(timeout / quantum) times, one
\* quantum each, and a NoResponseError carries a wait of at least the
\* timeout and less than the timeout plus one quantum.
C17_BoundedWait ==
    Polled =>
        /\ Sleeps <= MaxSleeps
        /\ sec_waited = Sleeps * Quantum
        /\ outcome.exc = "NoResponseError" =>
              /\ sec_waited >= args.bled112_timeout
              /\ sec_waited < args.bled112_timeout + Quantum

C17_Witness ==
    /\ Polled /\ outcome = Raises("NoResponseError")
    /\ args.bled112_timeout = 3 /\ Sleeps = 2 /\ sec_waited = 4

\* C18: in the wait loop the length test comes before the timeout test: a
\* poll that shows num_packets entries goes on to assemble, whatever the
\* accumulated wait, and NoResponseError is raised only by a poll that
\* showed fewer entries.
C18_LengthBeforeTimeout ==
    [][/\ (WaitCall /\ pc = "poll" /\ hr \in Handles
              /\ Len(notifications[hr]) >= N
              /\ <<pc, sec_waited>>' # <<pc, sec_waited>>)
          => (pc' = "drain" /\ sec_waited' = sec_waited /\ outcome' = NoOutcome)
       /\ (pc = "poll" /\ outcome'.exc = "NoResponseError")
          => (hr \in Handles /\ Len(notifications[hr]) < N
                /\ sec_waited >= args.bled112_timeout)]_vars

C18_Witness ==
    /\ WaitCall /\ pc = "drain" /\ i = 0
    /\ args.bled112_timeout = 0 /\ sec_waited = 0
    /\ Len(notifications[hr]) >= N

\* two UUID strings name the same identifier: their decoded bytes are equal
SameIdentifier(u, v) == uuid_bytearray(u) = uuid_bytearray(v)
KeysOf(uuid) == {u \in DOMAIN callbacks : SameIdentifier(u, uuid)}

\* C19: registration and dispatch key observers by the decoded bytes of the
\* UUID: a write-wait that returns has called exactly the observers
\* registered under any spelling of its response identifier.
C19_KeyedByDecodedBytes ==
    (Reassembled /\ pc = "done" /\ outcome.kind = "return") =>
        Len(invoked) = SumLens(callbacks, KeysOf(args.uuid_recv))

\* C20: a successful write-wait whose response identifier has no observer
\* still removes num_packets entries from the head of the response queue,
\* calls nothing and returns no value.
C20_UnobservedValueDiscarded ==
    (Reassembled /\ pc = "done" /\ KeysOf(args.uuid_recv) = {}) =>
        /\ outcome = Returns("None", <<>>)
        /\ invoked = <<>>
        /\ Len(removed[hr]) = N
        /\ inbox[hr] = Drop(arrived[hr], N)

C20_Witness ==
    /\ Reassembled /\ pc = "done" /\ KeysOf(args.uuid_recv) = {}
    /\ DOMAIN callbacks # {}
    /\ N = 2 /\ value_list # <<>> /\ inbox[hr] = <<>>

Next ==
    \/ Deliver
    \/ encrypt
    \/ get_rssi
    \/ subscribe
    \/ char_write_call
    \/ char_write_poll
    \/ char_write_drain
    \/ char_write_dispatch
    \/ char_read
    \/ stop
    \/ Finish

Spec == Init /\ [][Next]_vars
====
